---- MODULE Spec2Model ----
(***************************************************************************)
(* Model of obspy/clients/nrl/client.py: the Nominal Response Library      *)
(* client.  A catalog is a tree of index descriptions (index.txt files)    *)
(* whose sections are sub-catalog references or leaves naming a RESP file. *)
(* NRLDict expands sub-catalogs lazily, RemoteNRL caches every download in *)
(* a module-level dictionary, and get_response splices the first stage of  *)
(* the sensor response into the data-logger response.                      *)
(*                                                                         *)
(* Strings are sequences of tokens: a token is a quote character, a path   *)
(* separator "/" or an opaque run of other characters.  Python exceptions  *)
(* are modelled by their class names.                                      *)
(***************************************************************************)
EXTENDS Integers, Sequences, FiniteSets, Bags, TLC

VARIABLES
    world,      \* content served under the catalog root: relative location -> text
    cache,      \* _remote_nrl_cache: URL -> response text
    gets,       \* bag of URLs: HTTP GETs issued so far in the process
    okgets,     \* bag of URLs: HTTP GETs that obtained a response
    returned,   \* URL -> set of texts _download has returned for it
    nrls,       \* constructed NRL objects: <<[kind, sensors, dataloggers]>>
    heap,       \* NRLDict objects: id -> [nrl, question, d]
    nops,       \* number of client operations performed
    last,       \* the outcome of the last operation
    threads     \* threads inside _download: thread -> [pc, url, response, ...]

vars == <<world, cache, gets, okgets, returned, nrls, heap, nops, last,
          threads>>

----------------------------------------------------------------------------
(* Bounds of the model.                                                    *)

MaxOps == 3         \* client operations per behaviour
MaxNRL == 2         \* NRL objects constructed per behaviour
MaxVer == 1         \* times the served content changes
MaxLen == 3         \* length of the option values drawn for the parser
MaxOptions == 3     \* options of the section drawn for the parser
MaxStages == 4      \* stages of the responses drawn for the merger
MaxThreads == 2     \* threads that call _download at the same time

----------------------------------------------------------------------------
(* Strings.                                                                *)

SQ == "'"
DQ == "\""
Quotes == {SQ, DQ}

RECURSIVE lstrip(_, _)
lstrip(s, chars) ==
    IF s # <<>> /\ Head(s) \in chars THEN lstrip(Tail(s), chars) ELSE s

RECURSIVE rstrip(_, _)
rstrip(s, chars) ==
    IF s # <<>> /\ s[Len(s)] \in chars
    THEN rstrip(SubSeq(s, 1, Len(s) - 1), chars)
    ELSE s

\* str.strip(chars): drops every leading and every trailing character
\* that is in chars.
strip(s, chars) == rstrip(lstrip(s, chars), chars)

\* NRL._clean_str
_clean_str(string) == strip(string, Quotes)

\* os.path.dirname / the directory part of a location: everything before
\* the last separator.
RECURSIVE dirname(_)
dirname(path) ==
    IF path = <<>> THEN <<>>
    ELSE IF path[Len(path)] = "/" THEN SubSeq(path, 1, Len(path) - 1)
    ELSE dirname(SubSeq(path, 1, Len(path) - 1))

\* LocalNRL._join (os.path.join) and RemoteNRL._join (urljoin(url + '/', path))
\* for relative segments without "..": the segments separated by "/".
RECURSIVE _join(_, _)
_join(base, paths) ==
    IF paths = <<>> THEN base
    ELSE _join(base \o <<"/">> \o Head(paths), Tail(paths))

\* NRL._index
_index == <<"index.txt">>

\* The root of a backend: the default URL of RemoteNRL, a directory for
\* LocalNRL (NRL.__new__ picks the class by os.path.isdir(root)).
Kinds == {"RemoteNRL", "LocalNRL"}
Root(kind) == IF kind = "RemoteNRL" THEN <<"http://ds.iris.edu", "/", "NRL">>
              ELSE <<"", "/", "nrl">>

\* The location of a resource relative to the root of its backend.
Rel(kind, path) ==
    LET n == Len(Root(kind)) IN
    IF Len(path) > n + 1 /\ SubSeq(path, 1, n) = Root(kind)
    THEN SubSeq(path, n + 2, Len(path))
    ELSE <<"outside">> \o path

----------------------------------------------------------------------------
(* Texts and the catalog served under the root.                            *)

\* An index description, in the form configparser presents it: its sections
\* in file order, each with its option names and their raw values.
IndexText(ver, sections) ==
    [kind |-> "index", ver |-> ver, sections |-> sections, id |-> "", n |-> 0]

\* A RESP file describing one channel with n response stages.
RespText(ver, id, n) ==
    [kind |-> "resp", ver |-> ver, sections |-> <<>>, id |-> id, n |-> n]

\* The body a server sends with an error status.
ErrorPage(status) ==
    [kind |-> "errorpage", ver |-> 0, sections |-> <<>>, id |-> "", n |-> status]

Quoted(s) == <<DQ>> \o s \o <<DQ>>

Section(name, opts) == [name |-> name, opts |-> opts]

\* The catalog of the model: sensors/index.txt refers to the sub-catalog
\* Guralp, which holds two leaves; dataloggers/index.txt holds a leaf and a
\* reference to a sub-catalog whose index description is malformed.
Catalog ==
    (<<"sensors", "/", "index.txt">> :> IndexText(0, <<
        Section("Main", ("question" :> Quoted(<<"Select the sensor manufacturer">>))),
        Section("Guralp", ("path" :> Quoted(<<"guralp", "/", "index.txt">>))) >>))
    @@
    (<<"sensors", "/", "guralp", "/", "index.txt">> :> IndexText(0, <<
        Section("Main", ("question" :> Quoted(<<"Select the sensor model">>)
                         @@ "detail" :> Quoted(<<"the model">>))),
        Section("CMG-3T", ("descr" :> Quoted(<<"CMG-3T, 120 s">>)
                           @@ "resp" :> Quoted(<<"cmg3t.resp">>))),
        Section("CMG-40T", ("resp" :> <<SQ, "cmg40t.resp", SQ>>)) >>))
    @@
    (<<"sensors", "/", "guralp", "/", "cmg3t.resp">> :> RespText(0, "cmg3t", 2))
    @@
    (<<"sensors", "/", "guralp", "/", "cmg40t.resp">> :> RespText(0, "cmg40t", 1))
    @@
    (<<"dataloggers", "/", "index.txt">> :> IndexText(0, <<
        Section("RT130", ("description" :> Quoted(<<"RT 130, gain 1">>)
                          @@ "resp" :> Quoted(<<"rt130.resp">>))),
        Section("Broken", ("path" :> Quoted(<<"broken", "/", "index.txt">>))) >>))
    @@
    (<<"dataloggers", "/", "rt130.resp">> :> RespText(0, "rt130", 3))
    @@
    (<<"dataloggers", "/", "broken", "/", "index.txt">> :> IndexText(0, <<
        Section("X", ("foo" :> <<"1">> @@ "bar" :> <<"2">>)) >>))

----------------------------------------------------------------------------
(* The backends.  An operation threads a record m through the calls it     *)
(* makes: the process state it changes (cache, gets, okgets, returned,     *)
(* heap), what it has done so far (fetches, requests, warnings) and its    *)
(* environment (world, mode).                                              *)

\* How the environment answers the fetches of one operation: a server
\* answers with the content (200) or with an error status and its page (404
\* stands for every 4xx and 5xx status: the client never reads the status),
\* or the network fails; a file is there or is missing.
RemoteModes == {"200", "404", "neterr"}
LocalModes == {"present", "missing"}
Modes(kind) == IF kind = "RemoteNRL" THEN RemoteModes ELSE LocalModes

Ok(val, m) == [ok |-> TRUE, val |-> val, err |-> "", m |-> m]
Raise(err, m) == [ok |-> FALSE, val |-> <<>>, err |-> err, m |-> m]

\* Sequencing of two statements: an exception raised by the first
\* propagates, otherwise the second runs on the first's outcome.
Then(r, rest(_)) == IF r.ok THEN rest(r) ELSE r

\* requests.get(url): one HTTP GET.  A network failure raises; any answer,
\* whatever its status, is a response object.
requests_get(m, url) ==
    LET m1 == [m EXCEPT !.gets = @ (+) SetToBag({url}),
                        !.fetches = @ (+) SetToBag({url})]
        m2 == [m1 EXCEPT !.okgets = @ (+) SetToBag({url})]
        rel == Rel("RemoteNRL", url)
    IN  IF m.mode = "neterr" THEN Raise("ConnectionError", m1)
        ELSE IF m.mode = "404" \/ rel \notin DOMAIN m.world
        THEN Ok([status_code |-> 404, text |-> ErrorPage(404)], m2)
        ELSE Ok([status_code |-> 200, text |-> m.world[rel]], m2)

\* return _remote_nrl_cache[url], with the text noted as returned for url.
Return(m, url) ==
    Ok(m.cache[url],
       [m EXCEPT !.returned =
           (url :> ((IF url \in DOMAIN @ THEN @[url] ELSE {}) \cup {m.cache[url]}))
           @@ @])

\* The outcome of the GET with a failure remembered: when requests.get
\* raises, an empty entry is stored under the URL before the error leaves.
CachedAnyway(response, url) ==
    IF response.ok
    THEN Ok(url, [response.m EXCEPT !.cache = (url :> response.val.text) @@ @])
    ELSE Raise(response.err,
               [response.m EXCEPT !.cache = (url :> ErrorPage(0)) @@ @])

\* Lines 296-297 with an entry written whether or not the GET succeeded.
Fetch_cachefailure(m, url) == CachedAnyway(requests_get(m, url), url)

\* Lines 296-297: the GET, and the response's text stored under the URL.
Fetch(m, url) ==
    Then(requests_get(m, url), LAMBDA response :
         Ok(url, [response.m EXCEPT !.cache = (url :> response.val.text) @@ @]))

\* _download without the membership test of line 295: every request fetches.
_download_uncached(m, url) ==
    Then(Fetch([m EXCEPT !.requests = @ (+) SetToBag({url})], url),
         LAMBDA r : Return(r.m, url))

\* RemoteNRL._download
_download(m, url) ==
    IF url \notin DOMAIN m.cache
    THEN Then(Fetch([m EXCEPT !.requests = @ (+) SetToBag({url})], url),
              LAMBDA r : Return(r.m, url))
    ELSE Return([m EXCEPT !.requests = @ (+) SetToBag({url})], url)

\* open(path).read() of LocalNRL
open_read(m, path) ==
    LET m1 == [m EXCEPT !.fetches = @ (+) SetToBag({path})]
        rel == Rel("LocalNRL", path)
    IN  IF m.mode = "missing" \/ rel \notin DOMAIN m.world
        THEN Raise("IOError", m1)
        ELSE Ok(m.world[rel], m1)

\* configparser's read_file: the sections of an index description; any
\* other text has no section header.
read_file(text, m) ==
    IF text.kind = "index" THEN Ok(text.sections, m)
    ELSE Raise("MissingSectionHeaderError", m)

\* LocalNRL._get_cp_from_ini and RemoteNRL._get_cp_from_ini
_get_cp_from_ini(m, nrl, path) ==
    Then(IF nrl.kind = "RemoteNRL" THEN _download(m, path)
         ELSE open_read(m, path),
         LAMBDA t : read_file(t.val, t.m))

\* LocalNRL._read_resp and RemoteNRL._read_resp
_read_resp(m, nrl, path) ==
    IF nrl.kind = "RemoteNRL" THEN _download(m, path) ELSE open_read(m, path)

----------------------------------------------------------------------------
(* The index parser.                                                       *)

\* The option names of the model in the order sorted() gives them.
OptionOrder == <<"bar", "descr", "description", "detail", "foo", "path",
                 "question", "resp">>
OptionNames == {OptionOrder[i] : i \in DOMAIN OptionOrder}

\* sorted(cp.options(section))
sorted(options) == SelectSeq(OptionOrder, LAMBDA o : o \in options)

\* str.lower() on the section names of the model.
LowerCase == ("Main" :> "main") @@ ("MAIN" :> "main") @@ ("Guralp" :> "guralp")
             @@ ("RT130" :> "rt130") @@ ("Broken" :> "broken") @@ ("X" :> "x")
             @@ ("CMG-3T" :> "cmg-3t") @@ ("CMG-40T" :> "cmg-40t")
lower(name) == IF name \in DOMAIN LowerCase THEN LowerCase[name] ELSE name

\* The values an NRLDict stores: an NRLPath (a str subclass), a tuple
\* (descr, resp_path), or another NRLDict (by identity).
NRLPath(path) == [k |-> "NRLPath", path |-> path, descr |-> <<>>, id |-> 0]
Leaf(descr, resp_path) ==
    [k |-> "tuple", path |-> resp_path, descr |-> descr, id |-> 0]
DictRef(id) == [k |-> "NRLDict", path |-> <<>>, descr |-> <<>>, id |-> id]

\* NRLDict.__init__: an empty dict owned by nrl; _question is not set yet.
NoQuestion == <<"<unset>">>
NRLDict(nrl) == [nrl |-> nrl, question |-> NoQuestion, d |-> <<>>]

NoDescription == <<"<no description>">>

\* cp.options(choice) / cp.get(choice, option): the section named choice.
HasSection(cp, choice) == \E i \in DOMAIN cp : cp[i].name = choice
SectionOf(cp, choice) == cp[CHOOSE i \in DOMAIN cp : cp[i].name = choice]

\* Lines 92-100 of _choose on the parsed index description cp.
Chosen(cp, choice, path, m) ==
    IF ~HasSection(cp, choice) THEN Raise("NoSectionError", m)
    ELSE IF "path" \in DOMAIN SectionOf(cp, choice).opts
    THEN Ok(_join(dirname(path),
                  <<_clean_str(SectionOf(cp, choice).opts["path"])>>), m)
    ELSE IF "resp" \in DOMAIN SectionOf(cp, choice).opts
    THEN Ok(_join(dirname(path),
                  <<_clean_str(SectionOf(cp, choice).opts["resp"])>>), m)
    ELSE Raise("UnboundLocalError", m)

\* NRL._choose
_choose(m, nrl, choice, path) ==
    Then(_get_cp_from_ini(m, nrl, path),
         LAMBDA cp : Chosen(cp.val, choice, path, cp.m))

\* The option lists _parse_ini accepts: of a main section (line 108), of a
\* sub-catalog reference (line 116), of a leaf (line 121).
IsMainOptions(options) == options \in {<<"question">>, <<"detail", "question">>}
\* The test of line 116 as a membership test.
IsPathOptions_member(options) == \E i \in DOMAIN options : options[i] = "path"
IsPathOptions(options) == options = <<"path">>
IsRespOptions(options) ==
    options \in {<<"description", "resp">>, <<"descr", "resp">>, <<"resp">>}

\* The description without the _clean_str of line 129.
LeafDescr_raw(opts) ==
    LET options == DOMAIN opts IN
    IF "descr" \in options THEN opts["descr"]
    ELSE IF "description" \in options THEN opts["description"]
    ELSE NoDescription

\* The description of a leaf section (lines 123-129).
LeafDescr(opts) ==
    LET options == DOMAIN opts
        descr == IF "descr" \in options THEN opts["descr"]
                 ELSE IF "description" \in options THEN opts["description"]
                 ELSE NoDescription
    IN  _clean_str(descr)

\* The body of the loop of _parse_ini for one section: the dict with the
\* section's entry, or the exception.
ParseSection(m, nrl, path, section, opts, nrl_dict) ==
    IF lower(section) = "main"
    THEN IF ~IsMainOptions(sorted(DOMAIN opts))
         THEN Raise("NotImplementedError", m)
         ELSE Ok([nrl_dict EXCEPT !.question = _clean_str(opts["question"])], m)
    ELSE IF IsPathOptions(sorted(DOMAIN opts))
    THEN Then(_choose(m, nrl, section, path), LAMBDA c :
              Ok([nrl_dict EXCEPT !.d = (section :> NRLPath(c.val)) @@ @], c.m))
    ELSE IF IsRespOptions(sorted(DOMAIN opts))
    THEN Then(_choose(m, nrl, section, path), LAMBDA resp_path :
              Ok([nrl_dict EXCEPT
                  !.d = (section :> Leaf(LeafDescr(opts), resp_path.val)) @@ @],
                 resp_path.m))
    ELSE Raise("NotImplementedError", m)

\* for section in cp.sections(), from the i-th section on.
RECURSIVE ParseSections(_, _, _, _, _, _)
ParseSections(m, nrl, path, cp, i, nrl_dict) ==
    IF i > Len(cp) THEN Ok(nrl_dict, m)
    ELSE Then(ParseSection(m, nrl, path, cp[i].name, cp[i].opts, nrl_dict),
              LAMBDA r : ParseSections(r.m, nrl, path, cp, i + 1, r.val))

\* NRL._parse_ini: the new NRLDict enters the heap; its identity is returned.
_parse_ini(m, nrl, path) ==
    Then(_get_cp_from_ini(m, nrl, path), LAMBDA cp :
    Then(ParseSections(cp.m, nrl, path, cp.val, 1, NRLDict(nrl)), LAMBDA r :
         Ok(Len(r.m.heap) + 1, [r.m EXCEPT !.heap = Append(@, r.val)])))

----------------------------------------------------------------------------
(* The lazy catalog tree.                                                  *)

\* __getitem__ without the assignment of line 248: the expansion is returned
\* and not stored.
__getitem__unstored(m, id, name) ==
    IF name \notin DOMAIN m.heap[id].d THEN Raise("KeyError", m)
    ELSE IF m.heap[id].d[name].k = "NRLPath"
    THEN Then(_parse_ini(m, m.heap[id].nrl, m.heap[id].d[name].path),
              LAMBDA new : Ok(DictRef(new.val), new.m))
    ELSE Ok(m.heap[id].d[name], m)

\* __getitem__ as dict.setdefault would have it: a label the dict lacks is
\* given an entry and returned instead of raising KeyError.
__getitem__setdefault(m, id, name) ==
    IF name \notin DOMAIN m.heap[id].d
    THEN Ok(NRLPath(<<>>),
            [m EXCEPT !.heap[id].d = (name :> NRLPath(<<>>)) @@ @])
    ELSE IF m.heap[id].d[name].k = "NRLPath"
    THEN Then(_parse_ini(m, m.heap[id].nrl, m.heap[id].d[name].path),
              LAMBDA new :
                Ok(DictRef(new.val),
                   [new.m EXCEPT !.heap[id].d[name] = DictRef(new.val)]))
    ELSE Ok(m.heap[id].d[name], m)

\* __getitem__ with the test of line 245 widened to every value that is no
\* NRLDict: a leaf tuple is expanded like an NRLPath.
__getitem__anypath(m, id, name) ==
    IF name \notin DOMAIN m.heap[id].d THEN Raise("KeyError", m)
    ELSE IF m.heap[id].d[name].k # "NRLDict"
    THEN Then(_parse_ini(m, m.heap[id].nrl, m.heap[id].d[name].path),
              LAMBDA new :
                Ok(DictRef(new.val),
                   [new.m EXCEPT !.heap[id].d[name] = DictRef(new.val)]))
    ELSE Ok(m.heap[id].d[name], m)

\* The outcome of an expansion whose node is stored under the label before
\* it is filled: when the parse raises, an empty NRLDict stays behind.
StoredFirst(new, m, id, name) ==
    IF new.ok
    THEN Ok(DictRef(new.val),
            [new.m EXCEPT !.heap[id].d[name] = DictRef(new.val)])
    ELSE Raise(new.err,
               [new.m EXCEPT !.heap =
                   Append([@ EXCEPT ![id].d[name] =
                               DictRef(Len(new.m.heap) + 1)],
                          NRLDict(m.heap[id].nrl))])

\* __getitem__ with the assignment of line 248 made before the parse.
__getitem__storedfirst(m, id, name) ==
    IF name \notin DOMAIN m.heap[id].d THEN Raise("KeyError", m)
    ELSE IF m.heap[id].d[name].k = "NRLPath"
    THEN StoredFirst(_parse_ini(m, m.heap[id].nrl, m.heap[id].d[name].path),
                     m, id, name)
    ELSE Ok(m.heap[id].d[name], m)

\* NRLDict.__getitem__
__getitem__(m, id, name) ==
    IF name \notin DOMAIN m.heap[id].d THEN Raise("KeyError", m)
    ELSE IF m.heap[id].d[name].k = "NRLPath"
    THEN Then(_parse_ini(m, m.heap[id].nrl, m.heap[id].d[name].path),
              LAMBDA new :
                Ok(DictRef(new.val),
                   [new.m EXCEPT !.heap[id].d[name] = DictRef(new.val)]))
    ELSE Ok(m.heap[id].d[name], m)

----------------------------------------------------------------------------
(* The response resolver.                                                  *)

\* The integer index 1 of datalogger[1] / sensor[1]; the keys a client
\* passes are strings.
IntOne == "<int 1>"

\* value[key] for the values the walk can hold.
Subscript(m, value, key) ==
    IF value.k = "NRLDict" THEN __getitem__(m, value.id, key)
    ELSE IF value.k = "tuple" /\ key = IntOne THEN Ok(value.path, m)
    ELSE Raise("TypeError", m)      \* a tuple indexed by a str

\* for key in keys: value = value[key]
RECURSIVE Walk(_, _, _)
Walk(m, value, keys) ==
    IF keys = <<>> THEN Ok(value, m)
    ELSE Then(Subscript(m, value, Head(keys)),
              LAMBDA r : Walk(r.m, r.val, Tail(keys)))

\* The body shared by get_datalogger_resp and get_sensor_resp.
Resolve(m, nrl, root, keys) ==
    Then(Walk(m, DictRef(root), keys), LAMBDA w :
    Then(Subscript(w.m, w.val, IntOne), LAMBDA loc :
         _read_resp(loc.m, nrl, loc.val)))

\* NRL.get_datalogger_resp
get_datalogger_resp(m, nrl, datalogger_keys) ==
    Resolve(m, nrl, nrl.dataloggers, datalogger_keys)

\* NRL.get_sensor_resp
get_sensor_resp(m, nrl, sensor_keys) ==
    Resolve(m, nrl, nrl.sensors, sensor_keys)

----------------------------------------------------------------------------
(* The response merger.                                                    *)

Stage(text, i) == [resp |-> text.id, ver |-> text.ver, number |-> i]

\* obspy.read_inventory(buf, format="RESP") followed by [0][0][0].response:
\* the ordered stages of the single channel the text describes.
read_inventory(m, text) ==
    IF text.kind # "resp" THEN Raise("ReadInventoryError", m)
    ELSE Ok([i \in 1..text.n |-> Stage(text, i)],
            [m EXCEPT !.parsed = Append(@, [i \in 1..text.n |-> Stage(text, i)])])

\* list.pop(0) and list.insert(0, x)
pop0(list) == Tail(list)
insert0(list, x) == <<x>> \o list

\* The splice without the pop of line 212.
Splice_nopop(dl_stages, sensor_stages) ==
    insert0(dl_stages, sensor_stages[1])

\* Lines 210-213: replace stage one of the data logger by stage one of the
\* sensor.
Splice(dl_stages, sensor_stages) ==
    insert0(pop0(dl_stages), sensor_stages[1])

\* Response.recalculate_overall_sensitivity: it sets the overall sensitivity
\* from the stages or raises ValueError; it leaves the stage list alone.
recalculate_overall_sensitivity(m, response, raises) ==
    IF raises THEN Raise("ValueError", m)
    ELSE Ok([response EXCEPT !.sensitivity = "recalculated"], m)

\* dl_resp after lines 212-213.
Spliced(dl_stages, sensor_stages) ==
    [response_stages |-> Splice(dl_stages, sensor_stages),
     sensitivity |-> "nominal"]

\* except ValueError: warnings.warn(msg), and dl_resp is returned.
Except(r, dl_resp) ==
    IF r.ok THEN r
    ELSE IF r.err = "ValueError"
    THEN Ok(dl_resp, [r.m EXCEPT !.warnings = @ + 1])
    ELSE r

\* Lines 210-220 without the try/except: the ValueError propagates.
Combine_uncaught(m, dl_stages, sensor_stages, raises) ==
    recalculate_overall_sensitivity(m, Spliced(dl_stages, sensor_stages), raises)

\* Lines 210-220: the splice, then the recalculation inside try/except
\* ValueError, which warns and returns the response all the same.
Combine(m, dl_stages, sensor_stages, raises) ==
    Except(recalculate_overall_sensitivity(
               m, Spliced(dl_stages, sensor_stages), raises),
           Spliced(dl_stages, sensor_stages))

\* get_response with the splice done in place on the cached download: the
\* entry that held the data-logger text holds the sensor's afterwards.
get_response_inplace(m, nrl, datalogger_keys, sensor_keys, raises) ==
    Then(get_datalogger_resp(m, nrl, datalogger_keys), LAMBDA dl_text :
    Then(read_inventory(dl_text.m, dl_text.val), LAMBDA dl_resp :
    Then(get_sensor_resp(dl_resp.m, nrl, sensor_keys), LAMBDA sensor_text :
    Then(read_inventory(sensor_text.m, sensor_text.val), LAMBDA sensor_resp :
         IF dl_resp.val = <<>> \/ sensor_resp.val = <<>>
         THEN Raise("IndexError", sensor_resp.m)
         ELSE Combine([sensor_resp.m EXCEPT !.cache =
                          [url \in DOMAIN @ |->
                              IF @[url] = dl_text.val THEN sensor_text.val
                              ELSE @[url]]],
                      dl_resp.val, sensor_resp.val, raises)))))

\* NRL.get_response
get_response(m, nrl, datalogger_keys, sensor_keys, raises) ==
    Then(get_datalogger_resp(m, nrl, datalogger_keys), LAMBDA dl_text :
    Then(read_inventory(dl_text.m, dl_text.val), LAMBDA dl_resp :
    Then(get_sensor_resp(dl_resp.m, nrl, sensor_keys), LAMBDA sensor_text :
    Then(read_inventory(sensor_text.m, sensor_text.val), LAMBDA sensor_resp :
         IF dl_resp.val = <<>> \/ sensor_resp.val = <<>>
         THEN Raise("IndexError", sensor_resp.m)
         ELSE Combine(sensor_resp.m, dl_resp.val, sensor_resp.val, raises)))))

\* NRL.__init__ followed by an eager expansion of the first sub-catalog of
\* the sensors tree.
__init__eager(m, kind, idx) ==
    Then(_parse_ini(m, [kind |-> kind, idx |-> idx],
                    _join(Root(kind), <<<<"sensors">>, _index>>)),
         LAMBDA sensors :
    Then(_parse_ini(sensors.m, [kind |-> kind, idx |-> idx],
                    _join(Root(kind), <<<<"dataloggers">>, _index>>)),
         LAMBDA dataloggers :
    Then(__getitem__(dataloggers.m, sensors.val, "Guralp"),
         LAMBDA sub :
         Ok([kind |-> kind, idx |-> idx, sensors |-> sensors.val,
             dataloggers |-> dataloggers.val], sub.m))))

\* NRL.__init__ with LocalNRL.__init__ / RemoteNRL.__init__: the two
\* top-level index descriptions are parsed; the value is the new object.
__init__(m, kind, idx) ==
    Then(_parse_ini(m, [kind |-> kind, idx |-> idx],
                    _join(Root(kind), <<<<"sensors">>, _index>>)),
         LAMBDA sensors :
    Then(_parse_ini(sensors.m, [kind |-> kind, idx |-> idx],
                    _join(Root(kind), <<<<"dataloggers">>, _index>>)),
         LAMBDA dataloggers :
         Ok([kind |-> kind, idx |-> idx, sensors |-> sensors.val,
             dataloggers |-> dataloggers.val], dataloggers.m)))

----------------------------------------------------------------------------
(* The state machine: a process that constructs NRL objects and calls      *)
(* their operations, while the served content may change.                  *)

\* The record an operation starts from.
Begin(mode) ==
    [world |-> world, mode |-> mode, cache |-> cache, gets |-> gets,
     okgets |-> okgets, returned |-> returned, heap |-> heap,
     fetches |-> EmptyBag, requests |-> EmptyBag, warnings |-> 0,
     parsed |-> <<>>]

\* What an operation leaves behind: the process state and its outcome.  The
\* objects of a constructor that raised are garbage.
End(op, self, args, r) ==
    /\ cache' = r.m.cache
    /\ gets' = r.m.gets
    /\ okgets' = r.m.okgets
    /\ returned' = r.m.returned
    /\ heap' = IF op = "__init__" /\ ~r.ok THEN heap ELSE r.m.heap
    /\ nrls' = IF op = "__init__" /\ r.ok THEN Append(nrls, r.val) ELSE nrls
    /\ nops' = nops + 1
    /\ last' = [op |-> op, self |-> self, args |-> args,
                ok |-> r.ok, err |-> r.err, val |-> r.val,
                fetches |-> r.m.fetches, requests |-> r.m.requests,
                warnings |-> r.m.warnings, parsed |-> r.m.parsed]
    /\ UNCHANGED <<world, threads>>

\* The key sequences a client passes to the resolver.
SensorKeys == { <<>>, <<"Guralp">>, <<"Guralp", "CMG-3T">>,
                <<"Guralp", "CMG-40T">>, <<"Guralp", "CMG-3T", "Nope">> }
DataloggerKeys == { <<>>, <<"RT130">>, <<"RT130", "Nope">>, <<"Broken">> }

\* The key sequences a client passes to get_response.
MergeSensorKeys == { <<"Guralp", "CMG-3T">>, <<"Guralp", "CMG-40T">> }
MergeDataloggerKeys == { <<"RT130">> }

\* The labels a client asks an NRLDict for: its own and one it lacks.
Names(id) == DOMAIN heap[id].d \cup {"Nope"}

\* nrl = NRL(root)
Construct(kind, mode) ==
    /\ nops < MaxOps
    /\ Len(nrls) < MaxNRL
    /\ End("__init__", Len(nrls) + 1, <<kind>>,
           __init__(Begin(mode), kind, Len(nrls) + 1))

\* tree[name] on any NRLDict of the process
GetItem(id, name, mode) ==
    /\ nops < MaxOps
    /\ End("__getitem__", id, <<name>>, __getitem__(Begin(mode), id, name))

\* nrl.get_sensor_resp(keys)
GetSensorResp(i, keys, mode) ==
    /\ nops < MaxOps
    /\ End("get_sensor_resp", i, <<keys>>,
           get_sensor_resp(Begin(mode), nrls[i], keys))

\* nrl.get_datalogger_resp(keys)
GetDataloggerResp(i, keys, mode) ==
    /\ nops < MaxOps
    /\ End("get_datalogger_resp", i, <<keys>>,
           get_datalogger_resp(Begin(mode), nrls[i], keys))

\* nrl.get_response(datalogger_keys, sensor_keys)
GetResponse(i, datalogger_keys, sensor_keys, mode, raises) ==
    /\ nops < MaxOps
    /\ End("get_response", i, <<datalogger_keys, sensor_keys, raises>>,
           get_response(Begin(mode), nrls[i], datalogger_keys, sensor_keys,
                        raises))

\* The content behind every location of the catalog is replaced.
Version == world[<<"sensors", "/", "index.txt">>].ver
ServerChange ==
    /\ Version < MaxVer
    /\ world' = [loc \in DOMAIN world |-> [world[loc] EXCEPT !.ver = @ + 1]]
    /\ last' = [last EXCEPT !.op = "server_change"]
    /\ UNCHANGED <<cache, gets, okgets, returned, nrls, heap, nops, threads>>

NoOutcome ==
    [op |-> "none", self |-> 0, args |-> <<>>, ok |-> TRUE,
     err |-> "", val |-> <<>>, fetches |-> EmptyBag, requests |-> EmptyBag,
     warnings |-> 0, parsed |-> <<>>]

Init ==
    /\ world = Catalog
    /\ cache = <<>>
    /\ gets = EmptyBag
    /\ okgets = EmptyBag
    /\ returned = <<>>
    /\ nrls = <<>>
    /\ heap = <<>>
    /\ nops = 0
    /\ last = NoOutcome
    /\ threads = <<>>

Next ==
    \/ \E kind \in Kinds : \E mode \in Modes(kind) : Construct(kind, mode)
    \/ \E id \in DOMAIN heap : \E name \in Names(id) :
         \E mode \in Modes(heap[id].nrl.kind) : GetItem(id, name, mode)
    \/ \E i \in DOMAIN nrls : \E keys \in SensorKeys :
         \E mode \in Modes(nrls[i].kind) : GetSensorResp(i, keys, mode)
    \/ \E i \in DOMAIN nrls : \E keys \in DataloggerKeys :
         \E mode \in Modes(nrls[i].kind) : GetDataloggerResp(i, keys, mode)
    \/ \E i \in DOMAIN nrls : \E dk \in MergeDataloggerKeys :
         \E sk \in MergeSensorKeys :
         \E mode \in Modes(nrls[i].kind) : \E raises \in BOOLEAN :
           GetResponse(i, dk, sk, mode, raises)
    \/ ServerChange

Spec == Init /\ [][Next]_vars

----------------------------------------------------------------------------
(* Properties of the download cache (Spec).                                *)

\* The URLs the process has requested: each request fetched or was answered
\* from the cache.
Requested == BagToSet(gets) \cup DOMAIN returned

\* C1 as stated: over any sequence of requests for one URL through any of
\* the RemoteNRL objects, exactly one HTTP GET is performed for it and every
\* request returns the identical text.
C1_ExactlyOneGet ==
    \A url \in Requested :
        /\ CopiesIn(url, gets) = 1
        /\ url \in DOMAIN returned => Cardinality(returned[url]) = 1

\* C1 as amended: for every requested URL at most one HTTP GET obtained a
\* response, that response's text is the cache entry, and every request that
\* returned gave exactly that text; the GETs beyond it are the ones that
\* failed with a network error before a response was obtained, which cache
\* nothing.
C1_OneAnsweredGet ==
    \A url \in Requested \cup DOMAIN cache :
        /\ CopiesIn(url, okgets) <= 1
        /\ url \in DOMAIN cache <=> CopiesIn(url, okgets) = 1
        /\ url \in DOMAIN returned =>
             /\ url \in DOMAIN cache
             /\ returned[url] = {cache[url]}
        /\ CopiesIn(url, last.fetches) <= 1
        /\ url \in DOMAIN cache /\ CopiesIn(url, last.fetches) = 0 =>
             CopiesIn(url, gets) = CopiesIn(url, gets (-) last.fetches)

\* A second RemoteNRL object has been constructed and its requests for the
\* two top-level index descriptions were answered without a GET: each URL was
\* fetched once, by the first object, although the content changed since.
C1_Witness ==
    /\ last.op = "__init__" /\ last.ok /\ last.self = 2
    /\ nrls[1].kind = "RemoteNRL" /\ nrls[2].kind = "RemoteNRL"
    /\ last.fetches = EmptyBag
    /\ \A url \in BagToSet(last.requests) :
         CopiesIn(url, gets) = 1 /\ CopiesIn(url, last.requests) >= 2
    /\ Version = 1

\* The operations that hand a resource text, or stages parsed from one, to
\* the client of a RemoteNRL.
IsRemoteRead ==
    /\ last'.op \in {"get_sensor_resp", "get_datalogger_resp", "get_response"}
    /\ nops' = nops + 1
    /\ last'.ok
    /\ nrls[last'.self].kind = "RemoteNRL"

\* The stages a successful get_response returned.
StagesOf(outcome) ==
    {outcome.val.response_stages[i] : i \in DOMAIN outcome.val.response_stages}

\* C14: an entry of the download cache stays, with its text, through every
\* step of the process; every text _download has returned for a URL is that
\* of the entry, so what a resolve returns and what a merge builds its
\* stages from is the text first fetched, also after the served content has
\* changed.
C14_CacheOnlyGrows ==
    [][ /\ \A url \in DOMAIN cache :
             /\ url \in DOMAIN cache'
             /\ cache'[url] = cache[url]
             /\ url \in DOMAIN returned' => returned'[url] = {cache[url]}
        /\ IsRemoteRead /\ last'.op # "get_response" =>
             \E url \in DOMAIN cache' : last'.val = cache'[url]
        /\ IsRemoteRead /\ last'.op = "get_response" =>
             \A stage \in StagesOf(last') : \E url \in DOMAIN cache' :
                 /\ cache'[url].id = stage.resp
                 /\ cache'[url].ver = stage.ver
      ]_vars

\* A resolve through a RemoteNRL has returned, without a GET, the text
\* fetched before the served content changed.
C14_Witness ==
    /\ last.op \in {"get_sensor_resp", "get_datalogger_resp"} /\ last.ok
    /\ nrls[last.self].kind = "RemoteNRL"
    /\ last.fetches = EmptyBag /\ last.requests # EmptyBag
    /\ last.val.kind = "resp"
    /\ Version = 1 /\ last.val.ver = 0

\* C18: an operation that ends with the network error of a GET has issued
\* one GET for the URL concerned, without a second try, and has written no
\* entry for it: the download cache gained entries only for URLs whose GET
\* was answered; and every request for a URL that has no entry issues a GET,
\* so a request for the same URL after the failure fetches anew.
C18_NetworkErrorCachesNothing ==
    [][ /\ last'.err = "ConnectionError" /\ nops' = nops + 1 =>
             /\ ~last'.ok
             /\ \E url \in BagToSet(last'.fetches) :
                  /\ CopiesIn(url, last'.fetches) = 1
                  /\ CopiesIn(url, last'.requests) = 1
                  /\ CopiesIn(url, gets') = CopiesIn(url, gets) + 1
                  /\ CopiesIn(url, okgets') = CopiesIn(url, okgets)
                  /\ url \notin DOMAIN cache'
             /\ \A url \in DOMAIN cache' :
                  \/ url \in DOMAIN cache /\ cache'[url] = cache[url]
                  \/ CopiesIn(url, okgets') = CopiesIn(url, okgets) + 1
        /\ nops' = nops + 1 =>
             \A url \in BagToSet(last'.requests) :
                 url \notin DOMAIN cache =>
                     /\ CopiesIn(url, last'.fetches) = 1
                     /\ CopiesIn(url, gets') = CopiesIn(url, gets) + 1
      ]_vars

\* An operation has fetched a URL with the second GET issued for it, the
\* first having failed on the network and left no entry; the entry now
\* holds the text of the second.
C18_Witness ==
    /\ last.ok
    /\ last.op \in {"get_sensor_resp", "get_datalogger_resp"}
    /\ \E url \in BagToSet(last.fetches) :
         /\ CopiesIn(url, gets) = 2
         /\ CopiesIn(url, okgets) = 1
         /\ url \in DOMAIN cache
         /\ cache[url].kind = "index"

----------------------------------------------------------------------------
(* Properties of the lazy tree (Spec).                                     *)

IsGet(id, name) ==
    /\ last'.op = "__getitem__" /\ nops' = nops + 1
    /\ last'.self = id /\ last'.args = <<name>>

\* C2: the first successful get of a label holding an NRLPath stores a new
\* NRLDict under the label and returns it; once a label holds an NRLDict it
\* holds that same object for ever, every later get returns it, and such a
\* get creates no NRLDict and fetches nothing.
C2_ExpandedOnce ==
    [][ \A id \in DOMAIN heap : \A name \in DOMAIN heap[id].d :
          LET old == heap[id].d[name] IN
          /\ old.k = "NRLDict" => heap'[id].d[name] = old
          /\ IsGet(id, name) /\ last'.ok /\ old.k = "NRLPath" =>
               /\ last'.val.k = "NRLDict"
               /\ last'.val.id \notin DOMAIN heap
               /\ last'.val.id \in DOMAIN heap'
               /\ heap'[id].d[name] = last'.val
          /\ IsGet(id, name) /\ old.k = "NRLDict" =>
               /\ last'.ok
               /\ last'.val = old
               /\ heap' = heap
               /\ last'.fetches = EmptyBag /\ last'.requests = EmptyBag
      ]_vars

\* A get has returned an NRLDict without fetching anything: the label was
\* expanded by an earlier get and the stored object came back.
C2_Witness ==
    /\ last.op = "__getitem__" /\ last.ok
    /\ last.val.k = "NRLDict"
    /\ last.fetches = EmptyBag
    /\ heap[last.self].d[last.args[1]] = last.val
    /\ heap[last.val.id].d # <<>>

\* C11: a get of a label the NRLDict does not hold raises KeyError, reads
\* nothing from the backend (no fetch, no request to the cache), and leaves
\* every NRLDict of the process, expanded entries and NRLPaths alike, and the
\* download cache as they were.
C11_AbsentLabelRaises ==
    [][ \A id \in DOMAIN heap : \A name \in Names(id) :
          IsGet(id, name) /\ name \notin DOMAIN heap[id].d =>
              /\ ~last'.ok
              /\ last'.err = "KeyError"
              /\ last'.fetches = EmptyBag /\ last'.requests = EmptyBag
              /\ heap' = heap
              /\ cache' = cache /\ gets' = gets /\ returned' = returned
      ]_vars

\* A get of an absent label has failed on an NRLDict that holds an expanded
\* entry beside an NRLPath or a leaf.
C11_Witness ==
    /\ last.op = "__getitem__" /\ ~last.ok /\ last.err = "KeyError"
    /\ last.args[1] \notin DOMAIN heap[last.self].d
    /\ \E n \in DOMAIN heap[last.self].d : heap[last.self].d[n].k = "NRLDict"
    /\ cache # <<>>

\* C12: a label that holds a leaf tuple holds that same tuple after every
\* step of the process, whatever the operation; a get of the label returns
\* the tuple, reads nothing from the backend and changes no NRLDict.
C12_LeafStaysLeaf ==
    [][ \A id \in DOMAIN heap : \A name \in DOMAIN heap[id].d :
          LET old == heap[id].d[name] IN
          old.k = "tuple" =>
              /\ id \in DOMAIN heap'
              /\ name \in DOMAIN heap'[id].d
              /\ heap'[id].d[name] = old
              /\ IsGet(id, name) =>
                   /\ last'.ok
                   /\ last'.val = old
                   /\ last'.fetches = EmptyBag /\ last'.requests = EmptyBag
                   /\ heap' = heap
                   /\ cache' = cache /\ gets' = gets
      ]_vars

\* A get has returned the leaf of CMG-3T, description and location, from the
\* expanded sub-catalog that holds it.
C12_Witness ==
    /\ last.op = "__getitem__" /\ last.ok
    /\ last.val.k = "tuple"
    /\ last.val.descr = <<"CMG-3T, 120 s">>
    /\ last.fetches = EmptyBag /\ last.requests = EmptyBag
    /\ heap[last.self].d[last.args[1]] = last.val

\* The entries (NRLDict, label) a walk along keys from the NRLDict id
\* subscripts in the heap h.
RECURSIVE PathEntries(_, _, _)
PathEntries(h, id, keys) ==
    IF keys = <<>> \/ Head(keys) \notin DOMAIN h[id].d THEN {}
    ELSE {<<id, Head(keys)>>} \cup
         IF h[id].d[Head(keys)].k = "NRLDict"
         THEN PathEntries(h, h[id].d[Head(keys)].id, Tail(keys))
         ELSE {}

\* The entries the operation of this step subscripts.
Walked ==
    IF nops' # nops + 1 THEN {}
    ELSE IF last'.op = "__getitem__" THEN {<<last'.self, last'.args[1]>>}
    ELSE IF last'.op = "get_sensor_resp"
    THEN PathEntries(heap', nrls[last'.self].sensors, last'.args[1])
    ELSE IF last'.op = "get_datalogger_resp"
    THEN PathEntries(heap', nrls[last'.self].dataloggers, last'.args[1])
    ELSE IF last'.op = "get_response"
    THEN PathEntries(heap', nrls[last'.self].dataloggers, last'.args[1])
         \cup PathEntries(heap', nrls[last'.self].sensors, last'.args[2])
    ELSE {}

\* The two top-level index descriptions under the root of a backend.
TopLevel(kind) ==
    { _join(Root(kind), <<<<"sensors">>, _index>>),
      _join(Root(kind), <<<<"dataloggers">>, _index>>) }

\* C15: a constructor reads the two top-level index descriptions and nothing
\* else; an entry holds an NRLDict after a step only if it held it before or
\* the operation of the step subscripted exactly that label of that NRLDict
\* (so the NRLDicts a constructor makes hold none); and an operation changes
\* no entry, question or label set of an existing NRLDict off the key path
\* it walks.
C15_ExpandedByTraversalOnly ==
    [][ /\ last'.op = "__init__" /\ nops' = nops + 1 =>
             /\ BagToSet(last'.fetches) \subseteq TopLevel(last'.args[1])
             /\ BagToSet(last'.requests) \subseteq TopLevel(last'.args[1])
        /\ \A id \in DOMAIN heap' : \A name \in DOMAIN heap'[id].d :
             /\ heap'[id].d[name].k = "NRLDict" =>
                  \/ id \in DOMAIN heap /\ heap[id].d[name] = heap'[id].d[name]
                  \/ <<id, name>> \in Walked
        /\ \A id \in DOMAIN heap :
             /\ id \in DOMAIN heap'
             /\ DOMAIN heap'[id].d = DOMAIN heap[id].d
             /\ heap'[id].question = heap[id].question
             /\ heap'[id].nrl = heap[id].nrl
             /\ \A name \in DOMAIN heap[id].d :
                  heap'[id].d[name] # heap[id].d[name] =>
                      /\ <<id, name>> \in Walked
                      /\ heap[id].d[name].k = "NRLPath"
                      /\ heap'[id].d[name].k = "NRLDict"
      ]_vars

\* A resolve has read the index description of Guralp and expanded that
\* entry of the sensors tree, while the sub-catalog reference of the
\* data-logger tree it did not walk is still an NRLPath.
C15_Witness ==
    /\ last.op = "get_sensor_resp" /\ last.ok
    /\ \E loc \in BagToSet(last.fetches) \cup BagToSet(last.requests) :
         Rel(nrls[last.self].kind, loc) =
             <<"sensors", "/", "guralp", "/", "index.txt">>
    /\ heap[nrls[last.self].sensors].d["Guralp"].k = "NRLDict"
    /\ heap[nrls[last.self].dataloggers].d["Broken"].k = "NRLPath"

\* C17: every get of a label that holds an NRLPath reads the index
\* description the NRLPath names; it either returns the new NRLDict, stored
\* under the label, or raises the error of the read or of the parse and
\* leaves every NRLDict as it was, the label still holding the NRLPath and
\* no new NRLDict in being, so that the next get of the label reads again.
C17_FailedExpansionLeavesPath ==
    [][ \A id \in DOMAIN heap : \A name \in DOMAIN heap[id].d :
          LET old == heap[id].d[name] IN
          IsGet(id, name) /\ old.k = "NRLPath" =>
              /\ old.path \in BagToSet(last'.fetches)
                                \cup BagToSet(last'.requests)
              /\ \/ /\ last'.ok
                    /\ last'.val.k = "NRLDict"
                    /\ heap'[id].d[name] = last'.val
                 \/ /\ ~last'.ok
                    /\ last'.err \in {"ConnectionError", "IOError",
                                      "MissingSectionHeaderError",
                                      "NotImplementedError"}
                    /\ heap' = heap
      ]_vars

\* A get of Guralp through a RemoteNRL has expanded the label with the
\* second GET for its index description: an earlier get of the label failed
\* on the network and left the NRLPath in place.
C17_Witness ==
    /\ last.op = "__getitem__" /\ last.ok
    /\ last.args = <<"Guralp">>
    /\ last.val.k = "NRLDict"
    /\ \E url \in BagToSet(last.fetches) :
         /\ Rel("RemoteNRL", url) = <<"sensors", "/", "guralp", "/", "index.txt">>
         /\ CopiesIn(url, gets) = 2

\* A get of a label whose index description is malformed has raised, and
\* the label still holds its NRLPath.
C17_Malformed ==
    /\ last.op = "__getitem__" /\ ~last.ok
    /\ last.err = "NotImplementedError"
    /\ heap[last.self].d[last.args[1]].k = "NRLPath"

\* C3 as stated: an operation that expands a node fetches the node's index
\* description from its backend (an HTTP GET, a read of the file) at most
\* once, however many sections the index description has.
C3_OneFetchPerExpansion ==
    last.op = "__getitem__" =>
        \A loc \in BagToSet(last.fetches) : CopiesIn(loc, last.fetches) <= 1

----------------------------------------------------------------------------
(* Properties of the resolver (Spec).                                      *)

\* How a key sequence fits the branch of the served catalog it follows from
\* the index description at loc: "short" when the keys end at a sub-catalog,
\* "long" when a leaf is reached with keys left, "exact" when the last key
\* names a leaf, "nokey" when a key names no section.
RECURSIVE Fit(_, _)
Fit(loc, keys) ==
    IF loc \notin DOMAIN world \/ world[loc].kind # "index" THEN "noindex"
    ELSE IF keys = <<>> THEN "short"
    ELSE IF ~HasSection(world[loc].sections, Head(keys)) THEN "nokey"
    ELSE LET opts == SectionOf(world[loc].sections, Head(keys)).opts IN
         IF DOMAIN opts = {"path"}
         THEN Fit(dirname(loc) \o <<"/">> \o strip(opts["path"], Quotes),
                  Tail(keys))
         ELSE IF Tail(keys) = <<>> THEN "exact" ELSE "long"

LastFit ==
    IF last.op = "get_sensor_resp"
    THEN Fit(<<"sensors", "/", "index.txt">>, last.args[1])
    ELSE IF last.op = "get_datalogger_resp"
    THEN Fit(<<"dataloggers", "/", "index.txt">>, last.args[1])
    ELSE "none"

\* The locations of the RESP files, under either root.
IsRespLocation(loc) ==
    \E kind \in Kinds :
        /\ Rel(kind, loc) \in DOMAIN world
        /\ world[Rel(kind, loc)].kind = "resp"

\* C5 as stated: resolving a key sequence shorter or longer than the branch
\* it follows fails, with an error of another kind than the one a missing
\* label gives (KeyError), and fetches no leaf resource.
C5_PathMismatchIsDistinct ==
    LastFit \in {"short", "long"} =>
        /\ ~last.ok
        /\ last.err # "KeyError"
        /\ \A loc \in BagToSet(last.fetches) \cup BagToSet(last.requests) :
             ~IsRespLocation(loc)

\* C6 as stated: a fetch answered with a 4xx or 5xx status raises; the body
\* of the error response is never returned as the text of the resource.
C6_ErrorStatusRaises ==
    \A url \in DOMAIN returned :
        \A text \in returned[url] : text.kind # "errorpage"

----------------------------------------------------------------------------
(* The parser on drawn index descriptions (SpecParse): sensors/index.txt   *)
(* holds a leaf section followed by one section of any name, any option    *)
(* set and any quoting of its values.                                      *)

Chars == {SQ, DQ, "a"}
Strings == UNION {[1..k -> Chars] : k \in 0..MaxLen}
OptionSets == {S \in SUBSET OptionNames : Cardinality(S) <= MaxOptions}
SectionNames == {"main", "Main", "MAIN", "Guralp"}

\* The value of option o under the pattern s: the letters of s stand for
\* the characters of o's own value.
Value(o, s) == [i \in 1..Len(s) |-> IF s[i] = "a" THEN o ELSE s[i]]

SensorIndex == <<"sensors", "/", "index.txt">>

InitParse ==
    /\ \E name \in SectionNames : \E S \in OptionSets : \E s \in Strings :
         world = (SensorIndex :> IndexText(0, <<
                    Section("Lead", ("resp" :> Quoted(<<"lead.resp">>))),
                    Section(name, [o \in S |-> Value(o, s)]) >>)) @@ Catalog
    /\ cache = <<>>
    /\ gets = EmptyBag
    /\ okgets = EmptyBag
    /\ returned = <<>>
    /\ nrls = <<>>
    /\ heap = <<>>
    /\ nops = 0
    /\ last = NoOutcome
    /\ threads = <<>>

\* self._parse_ini(sensor_index), the first statement of NRL.__init__
ParseIndex(kind, mode) ==
    /\ nops = 0
    /\ End("_parse_ini", 1, <<kind>>,
           _parse_ini(Begin(mode), [kind |-> kind, idx |-> 1],
                      _join(Root(kind), <<<<"sensors">>, _index>>)))

NextParse == \E kind \in Kinds : \E mode \in Modes(kind) : ParseIndex(kind, mode)

SpecParse == InitParse /\ [][NextParse]_vars

\* The drawn section, and the tree a successful parse made.
Drawn == world[SensorIndex].sections[2]
DrawnOptions == DOMAIN Drawn.opts
DrawnIsMain == Drawn.name \in {"main", "Main", "MAIN"}
Parsed == last.op = "_parse_ini" /\ last.err \notin {"ConnectionError",
              "IOError", "MissingSectionHeaderError"}
Tree == heap[last.val]

LeafOptionSets == {{"description", "resp"}, {"descr", "resp"}, {"resp"}}

\* C8: a section named main in any letter case is accepted exactly with the
\* option set {question} or {question, detail} and makes no entry; any other
\* section makes an NRLPath exactly for {path} and a leaf tuple exactly for
\* {description, resp}, {descr, resp} or {resp}; every other option set
\* raises NotImplementedError and no NRLDict comes into being.
C8_ExactOptionSets ==
    Parsed =>
        /\ DrawnIsMain =>
             (last.ok <=> DrawnOptions \in {{"question"}, {"question", "detail"}})
        /\ DrawnIsMain /\ last.ok => DOMAIN Tree.d = {"Lead"}
        /\ ~DrawnIsMain =>
             (last.ok <=> DrawnOptions \in {{"path"}} \cup LeafOptionSets)
        /\ ~DrawnIsMain /\ last.ok =>
             /\ DOMAIN Tree.d = {"Lead", Drawn.name}
             /\ Tree.d[Drawn.name].k = "NRLPath" <=> DrawnOptions = {"path"}
             /\ Tree.d[Drawn.name].k = "tuple" <=> DrawnOptions \in LeafOptionSets
        /\ ~last.ok => last.err = "NotImplementedError" /\ heap = <<>>

\* A section with the options {path, resp} has been rejected.
C8_Witness ==
    /\ Parsed /\ ~last.ok
    /\ ~DrawnIsMain /\ DrawnOptions = {"path", "resp"}
    /\ last.err = "NotImplementedError"

\* The value s without the quote characters before its first and after its
\* last character that is no quote.
Unquoted(s) ==
    LET I == {i \in 1..Len(s) : s[i] \notin Quotes} IN
    IF I = {} THEN <<>>
    ELSE SubSeq(s, CHOOSE i \in I : \A j \in I : i <= j,
                   CHOOSE i \in I : \A j \in I : i >= j)

DrawnIsLeaf == Parsed /\ last.ok /\ ~DrawnIsMain /\ DrawnOptions \in LeafOptionSets

\* C9 as stated: the description of a leaf is the value of descr if present,
\* else the value of description if present, else the placeholder
\* "no description available".
C9_DescriptionAsStated ==
    DrawnIsLeaf =>
        Tree.d[Drawn.name].descr =
            IF "descr" \in DrawnOptions THEN Drawn.opts["descr"]
            ELSE IF "description" \in DrawnOptions THEN Drawn.opts["description"]
            ELSE <<"no description available">>

\* C9 as amended: the description of a leaf is the value of descr if present,
\* else the value of description if present, in both cases without its
\* leading and trailing quote characters, else the placeholder
\* "<no description>".
C9_DescriptionUnquoted ==
    DrawnIsLeaf =>
        Tree.d[Drawn.name].descr =
            IF "descr" \in DrawnOptions THEN Unquoted(Drawn.opts["descr"])
            ELSE IF "description" \in DrawnOptions
            THEN Unquoted(Drawn.opts["description"])
            ELSE <<"<no description>">>

\* A leaf section with the one option resp has been parsed and carries the
\* placeholder.
C9_Witness ==
    /\ DrawnIsLeaf /\ DrawnOptions = {"resp"}
    /\ Tree.d[Drawn.name].descr = <<"<no description>">>

\* Quote-stripping as the specification has it: one character from each end, and
\* only when the first and the last character are the same quote character.
OneMatchedPair(s) ==
    IF Len(s) >= 2 /\ s[1] \in Quotes /\ s[Len(s)] = s[1]
    THEN SubSeq(s, 2, Len(s) - 1)
    ELSE s

\* C10 as stated: the guiding question of a tree is the question value with
\* at most one matched pair of quotes removed; further or unmatched quotes
\* stay in it.
C10_OneMatchedPairStripped ==
    Parsed /\ last.ok /\ DrawnIsMain =>
        Tree.question = OneMatchedPair(Drawn.opts["question"])

----------------------------------------------------------------------------
(* The merger on drawn responses (SpecMerge): the two RESP files of the    *)
(* catalog hold any number of stages.                                      *)

DataloggerResp == <<"dataloggers", "/", "rt130.resp">>
SensorResp == <<"sensors", "/", "guralp", "/", "cmg3t.resp">>

InitMerge ==
    /\ \E nd \in 0..MaxStages : \E ns \in 0..MaxStages :
         world = (DataloggerResp :> RespText(0, "rt130", nd))
                 @@ (SensorResp :> RespText(0, "cmg3t", ns)) @@ Catalog
    /\ cache = <<>>
    /\ gets = EmptyBag
    /\ okgets = EmptyBag
    /\ returned = <<>>
    /\ nrls = <<>>
    /\ heap = <<>>
    /\ nops = 0
    /\ last = NoOutcome
    /\ threads = <<>>

NextMerge ==
    \/ \E kind \in Kinds : \E mode \in Modes(kind) : Construct(kind, mode)
    \/ \E i \in DOMAIN nrls : \E dk \in MergeDataloggerKeys :
         \E sk \in MergeSensorKeys :
         \E mode \in Modes(nrls[i].kind) : \E raises \in BOOLEAN :
           GetResponse(i, dk, sk, mode, raises)

SpecMerge == InitMerge /\ [][NextMerge]_vars

\* A get_response that parsed both texts and found a stage in each: the
\* splice and the recalculation have run.
Merged ==
    /\ last.op = "get_response"
    /\ Len(last.parsed) = 2
    /\ last.parsed[1] # <<>> /\ last.parsed[2] # <<>>

\* C4: the response merged from the data-logger stages D and the sensor
\* stages S, both non-empty, has as many stages as D, S[1] first, then
\* D[2], D[3], ... in their order, and no other stage of S.
C4_SplicedStages ==
    Merged =>
        LET D == last.parsed[1]
            S == last.parsed[2]
            R == last.val.response_stages
        IN  /\ last.ok
            /\ Len(R) = Len(D)
            /\ R[1] = S[1]
            /\ \A i \in 2..Len(D) : R[i] = D[i]
            /\ \A i \in 1..Len(R) : \A j \in 2..Len(S) : R[i] # S[j]

\* A merge of three or more data-logger stages with two or more sensor
\* stages has returned.
C4_Witness ==
    /\ Merged /\ last.ok
    /\ Len(last.parsed[1]) >= 3 /\ Len(last.parsed[2]) >= 2
    /\ Len(last.val.response_stages) = Len(last.parsed[1])

\* C7: when the recalculation raises ValueError, get_response returns the
\* response all the same, with one warning, and its stages are the spliced
\* list S[1], D[2], D[3], ...; when it does not raise there is no warning.
C7_RecalculationFailureWarns ==
    Merged =>
        /\ last.ok
        /\ last.warnings = (IF last.args[3] THEN 1 ELSE 0)
        /\ last.val.response_stages =
             <<last.parsed[2][1]>> \o Tail(last.parsed[1])
        /\ last.val.sensitivity =
             (IF last.args[3] THEN "nominal" ELSE "recalculated")

\* A merge whose recalculation raised has returned with its warning.
C7_Witness ==
    /\ Merged /\ last.args[3] /\ last.ok
    /\ last.warnings = 1
    /\ Len(last.val.response_stages) >= 2

\* The location of the RESP file the keys lead to in the served catalog,
\* from the index description at loc.
RECURSIVE Leads(_, _)
Leads(loc, keys) ==
    LET opts == SectionOf(world[loc].sections, Head(keys)).opts IN
    IF DOMAIN opts = {"path"}
    THEN Leads(dirname(loc) \o <<"/">> \o strip(opts["path"], Quotes),
               Tail(keys))
    ELSE dirname(loc) \o <<"/">> \o strip(opts["resp"], Quotes)

\* The stages of the RESP file at loc, as a parse of its text gives them.
StagesAt(loc) == [i \in 1..world[loc].n |-> Stage(world[loc], i)]

\* The stage list a merge of the served content gives for two key
\* sequences: a function of the content and the keys alone.
Expected(datalogger_keys, sensor_keys) ==
    <<StagesAt(Leads(<<"sensors", "/", "index.txt">>, sensor_keys))[1]>>
    \o Tail(StagesAt(Leads(<<"dataloggers", "/", "index.txt">>,
                           datalogger_keys)))

\* C16: with the served content fixed, every get_response that returns has
\* parsed both texts anew and returns the stage list the content and the
\* two key sequences determine, whatever merges went before; the call
\* changes no entry of the download cache and no leaf of a tree.
C16_MergeRepeatable ==
    [][ last'.op = "get_response" /\ nops' = nops + 1 =>
          /\ last'.ok =>
               /\ Len(last'.parsed) = 2
               /\ last'.val.response_stages =
                    Expected(last'.args[1], last'.args[2])
          /\ \A url \in DOMAIN cache :
               url \in DOMAIN cache' /\ cache'[url] = cache[url]
          /\ \A id \in DOMAIN heap : \A name \in DOMAIN heap[id].d :
               heap[id].d[name].k = "tuple" =>
                   heap'[id].d[name] = heap[id].d[name]
      ]_vars

\* A merge through a RemoteNRL has returned the stage list of the content
\* with both texts taken from the download cache: an earlier merge with the
\* same key sequences fetched them, and spliced its own copies.
C16_Witness ==
    /\ Merged /\ last.ok
    /\ nrls[last.self].kind = "RemoteNRL"
    /\ last.fetches = EmptyBag
    /\ Cardinality(BagToSet(last.requests)) = 2
    /\ Len(last.parsed[1]) >= 2
    /\ last.val.response_stages = Expected(last.args[1], last.args[2])

----------------------------------------------------------------------------
(* RemoteNRL._download called from several threads at once (SpecRace):     *)
(* each thread runs lines 295-298 one statement at a time, the statements  *)
(* of the threads interleave under the interpreter lock, and the served    *)
(* content may change between two of them.                                 *)

\* The URLs the threads ask for.
RaceURLs == { _join(Root("RemoteNRL"), <<<<"sensors">>, _index>>),
              _join(Root("RemoteNRL"), <<<<"dataloggers">>, _index>>) }

\* The local variable response before line 296 has run.
NoResponse ==
    [kind |-> "none", ver |-> 0, sections |-> <<>>, id |-> "", n |-> 0]

\* A thread that has called _download(url) and has run none of it yet.
\* stored is the place of the thread's run of line 297 among the runs of
\* that line by all threads.
Called(url) ==
    [pc |-> "test", url |-> url, response |-> NoResponse, stored |-> 0,
     result |-> NoResponse]

\* dict.setdefault(key, value): an entry that exists is kept.
setdefault(d, key, value) == d @@ (key :> value)

\* d[key] = value on a dict: an entry that exists is replaced.
__setitem__(d, key, value) == (key :> value) @@ d

\* Thread t has run a statement of _download and goes on as thread.
Step(t, thread) ==
    /\ threads' = [threads EXCEPT ![t] = thread]
    /\ last' = [last EXCEPT !.op = "_download"]
    /\ UNCHANGED <<world, nrls, heap, nops>>

\* Line 295: if url not in _remote_nrl_cache
Test(t) ==
    /\ threads[t].pc = "test"
    /\ Step(t,
            [threads[t] EXCEPT !.pc = IF threads[t].url \notin DOMAIN cache
                                      THEN "get" ELSE "return"])
    /\ UNCHANGED <<cache, gets, okgets, returned>>

\* The outcome r of requests.get in thread t: the response is bound to the
\* local variable, or the exception leaves _download.
Got(t, r) ==
    /\ gets' = r.m.gets
    /\ okgets' = r.m.okgets
    /\ Step(t,
            IF r.ok
            THEN [threads[t] EXCEPT !.pc = "store", !.response = r.val.text]
            ELSE [threads[t] EXCEPT !.pc = "raised"])
    /\ UNCHANGED <<cache, returned>>

\* Line 296: response = requests.get(url)
Get(t, mode) ==
    /\ threads[t].pc = "get"
    /\ Got(t, requests_get(Begin(mode), threads[t].url))

\* The number of times line 297 has run.
Writes == Cardinality({t \in DOMAIN threads : threads[t].stored > 0})

\* Line 297: _remote_nrl_cache[url] = response.text
Store(t) ==
    /\ threads[t].pc = "store"
    /\ cache' = __setitem__(cache, threads[t].url, threads[t].response)
    /\ Step(t,
            [threads[t] EXCEPT !.pc = "return", !.stored = Writes + 1])
    /\ UNCHANGED <<gets, okgets, returned>>

\* Line 298: return _remote_nrl_cache[url]
ReturnCached(t) ==
    /\ threads[t].pc = "return"
    /\ returned' = Return(Begin("200"), threads[t].url).m.returned
    /\ Step(t,
            [threads[t] EXCEPT !.pc = "done",
                               !.result = cache[threads[t].url]])
    /\ UNCHANGED <<cache, gets, okgets>>

InitRace ==
    /\ world = Catalog
    /\ cache = <<>>
    /\ gets = EmptyBag
    /\ okgets = EmptyBag
    /\ returned = <<>>
    /\ nrls = <<>>
    /\ heap = <<>>
    /\ nops = 0
    /\ last = NoOutcome
    /\ threads \in [1..MaxThreads -> {Called(url) : url \in RaceURLs}]

NextRace ==
    \/ \E t \in DOMAIN threads : Test(t)
    \/ \E t \in DOMAIN threads : \E mode \in RemoteModes : Get(t, mode)
    \/ \E t \in DOMAIN threads : Store(t)
    \/ \E t \in DOMAIN threads : ReturnCached(t)
    \/ ServerChange

SpecRace == InitRace /\ [][NextRace]_vars

\* The threads that have written the cache entry of url.
Writers(url) ==
    {t \in DOMAIN threads : threads[t].url = url /\ threads[t].stored > 0}

\* The thread that wrote the entry of url last.
LastWriter(url) ==
    CHOOSE t \in Writers(url) :
        \A u \in Writers(url) : threads[u].stored <= threads[t].stored

\* C13: whatever the interleaving, a URL has a cache entry exactly when a
\* thread has written one, the entry holds the text written last, and no
\* more GETs are issued for the URL than threads asked for it.
C13_LastWriteWins ==
    \A url \in RaceURLs :
        /\ url \in DOMAIN cache <=> Writers(url) # {}
        /\ Writers(url) # {} => cache[url] = threads[LastWriter(url)].response
        /\ CopiesIn(url, gets) <=
             Cardinality({t \in DOMAIN threads : threads[t].url = url})

\* Two threads asked for the same URL, both found no entry and both issued
\* a GET; the served content changed between the two, both have returned,
\* and the entry is the text of the thread that wrote second.
C13_Witness ==
    \E t \in DOMAIN threads : \E u \in DOMAIN threads :
        /\ t # u
        /\ threads[t].url = threads[u].url
        /\ threads[t].pc = "done" /\ threads[u].pc = "done"
        /\ CopiesIn(threads[t].url, gets) >= 2
        /\ 0 < threads[t].stored /\ threads[t].stored < threads[u].stored
        /\ threads[t].response # threads[u].response
        /\ cache[threads[t].url] = threads[u].response

====
